---- MODULE Spec2Model ----
(***************************************************************************)
(* Model of the clinic inventory store (class InventoryData), the API      *)
(* layer on top of it (class InventoryAPI) and the page around them: the   *)
(* dashboard's alerts and auto-refresh timer (class DashboardManager), the *)
(* alert badge and the loading spinner (classes AlertsManager, UIManager). *)
(*                                                                         *)
(* A record is a function from field names to values; an optional field    *)
(* that is absent is missing from the record's DOMAIN, as in JavaScript.   *)
(* Dates ('YYYY-MM-DD' strings in the code) are day numbers; an instant    *)
(* (new Date()) is a number of clock ticks, TicksPerDay ticks to a day, so *)
(* the date d parses to the instant d * TicksPerDay (UTC midnight).        *)
(***************************************************************************)
EXTENDS Integers, Sequences, FiniteSets, TLC

VARIABLES items, now, nextId, lastOp, arg, result,
          calls,             \* the quantity adjustments of the API, by call
          dashboardManager,  \* refreshInterval, autoRefreshEnabled, refreshRate
          timers,            \* the interval timers created so far, by handle
          uiManager,         \* the loading spinner and the alert badge
          loads              \* the page loads in flight, by manager

vars == <<items, now, nextId, lastOp, arg, result,
          calls, dashboardManager, timers, uiManager, loads>>

\* the state of the page around the store
page == <<calls, dashboardManager, timers, uiManager, loads>>

\* ------------------------------------------------------------------ bounds
MaxItems == 2
MaxId == 3
MaxQty == 2
TicksPerDay == 2
Today == 10

\* ------------------------------------------------- constants of the program
lowStockThreshold == 10
expiryWarningDays == 30
urgentExpiryDays == 7
dashboardDefaultThreshold == 10
defaultRefreshRate == 30000

\* a date string that new Date() cannot parse
InvalidDate == -1

\* the number NaN, and the time value of an Invalid Date
NaN == -1000000

\* ---------------------------------------------------------- input domains
\* fields of the single records the queries are applied to
QtyInputs == {0, 1, 3, 5, 6, 10, 11}
ThresholdInputs == {0, 1, 4, 10}
ExpiryInputs ==
    {InvalidDate, Today - 1, Today, Today + 1, Today + 7, Today + 8, Today + 30, Today + 31}
\* fields of the records of the longer collections
CoreQtyInputs == {0, 3, 11}
CoreThresholdInputs == {4}
CoreExpiryInputs == {Today - 1, Today + 7, Today + 30, Today + 31}
\* arguments of the store's and the API's operations
StoreQtyInputs == {-1, 2}
AmountInputs == {-3, 1}
NewQuantityInputs == {-2, 1}
Ids == 1..MaxId

Statuses == {"in-stock", "low-stock", "out-of-stock", "expiring", "expired"}

Null == [absent |-> TRUE]

\* throw new Error('Item not found')
NotFound == [error |-> "Item not found"]

\* ------------------------------------------------------------ JS helpers
Has(item, field) == field \in DOMAIN item

\* { ...a, ...b }: fields of b override fields of a
Spread(a, b) ==
    [f \in (DOMAIN a) \cup (DOMAIN b) |-> IF f \in DOMAIN b THEN b[f] ELSE a[f]]

Max(a, b) == IF a >= b THEN a ELSE b

\* Math.floor(a / b) for b > 0
Floor(a, b) == a \div b

\* Math.ceil(a / b) for b > 0
Ceil(a, b) == -((-a) \div b)

\* Array.prototype.filter is SelectSeq.

\* Array.prototype.findIndex, 0 for -1
FindIndex(s, id) ==
    IF \E i \in 1..Len(s) : s[i].id = id
    THEN CHOOSE i \in 1..Len(s) : s[i].id = id /\ \A j \in 1..(i - 1) : s[j].id # id
    ELSE 0

\* ------------------------------------------------------- utility methods
\* a < b, a <= b and a - b on numbers: a comparison with NaN is false, a
\* difference with NaN is NaN
Less(a, b) == a # NaN /\ b # NaN /\ a < b

LessEq(a, b) == a # NaN /\ b # NaN /\ a <= b

Minus(a, b) == IF a = NaN \/ b = NaN THEN NaN ELSE a - b

\* new Date(expiryDate): the instant of a date string
DateOf(expiryDate) == IF expiryDate = InvalidDate THEN NaN ELSE expiryDate * TicksPerDay

\* new Date().toISOString().split('T')[0]
TodayString(t) == t \div TicksPerDay

\* Math.ceil(diffTime / (1000 * 60 * 60 * 24))
CeilDays(diffTime) == IF diffTime = NaN THEN NaN ELSE Ceil(diffTime, TicksPerDay)

isExpired(expiryDate, t) == Less(DateOf(expiryDate), t)

getDaysUntilExpiryAbsolute(expiryDate, t) ==
    LET diffTime == Minus(DateOf(expiryDate), t)
    IN  CeilDays(IF diffTime # NaN /\ diffTime < 0 THEN -diffTime ELSE diffTime)

getDaysUntilExpiry(expiryDate, t) == CeilDays(Minus(DateOf(expiryDate), t))

isExpiringSoonFromToday(expiryDate, days, t) ==
    LET diffDays == CeilDays(Minus(DateOf(expiryDate), t))
    IN  LessEq(diffDays, days) /\ LessEq(0, diffDays)

isExpiringSoonWithin(expiryDate, days, t) ==
    LET diffDays == CeilDays(Minus(DateOf(expiryDate), t))
    IN  LessEq(diffDays, days) /\ Less(0, diffDays)

isExpiringSoon(expiryDate, t) == isExpiringSoonWithin(expiryDate, expiryWarningDays, t)

\* a || b on numbers and undefined: b when a is undefined or 0
OrDefault(item, default) ==
    IF Has(item, "lowStockThreshold") /\ item.lowStockThreshold # 0
    THEN item.lowStockThreshold
    ELSE default

\* (item.lowStockThreshold || this.lowStockThreshold)
itemThreshold(item) == OrDefault(item, lowStockThreshold)

getItemStatus(item, t) ==
    IF item.quantity = 0 THEN "out-of-stock"
    ELSE IF isExpired(item.expiryDate, t) THEN "expired"
    ELSE IF isExpiringSoon(item.expiryDate, t) THEN "expiring"
    ELSE IF item.quantity <= itemThreshold(item) THEN "low-stock"
    ELSE "in-stock"

\* --------------------------------------------------- analytics and filters
getLowStockItems(its) ==
    LET Keep(item) == item.quantity <= itemThreshold(item) /\ item.quantity > 0
    IN  SelectSeq(its, Keep)

getExpiringSoonItems(its, t) ==
    LET Keep(item) == isExpiringSoon(item.expiryDate, t) /\ ~isExpired(item.expiryDate, t)
    IN  SelectSeq(its, Keep)

getExpiredItems(its, t) ==
    LET Keep(item) == isExpired(item.expiryDate, t)
    IN  SelectSeq(its, Keep)

\* filterByStatus taking 'expiring' as a status of the precedence chain
filterByStatusByPrecedence(its, status, t) ==
    LET HasStatus(item) == getItemStatus(item, t) = status
    IN  IF status \in Statuses THEN SelectSeq(its, HasStatus) ELSE its

filterByStatus(its, status, t) ==
    LET InStock(item) == /\ item.quantity > itemThreshold(item)
                         /\ ~isExpiringSoon(item.expiryDate, t)
                         /\ ~isExpired(item.expiryDate, t)
        LowStock(item) == item.quantity <= itemThreshold(item) /\ item.quantity > 0
        OutOfStock(item) == item.quantity = 0
        Expiring(item) == isExpiringSoon(item.expiryDate, t) /\ ~isExpired(item.expiryDate, t)
        Expired(item) == isExpired(item.expiryDate, t)
    IN  CASE status = "in-stock" -> SelectSeq(its, InStock)
          [] status = "low-stock" -> SelectSeq(its, LowStock)
          [] status = "out-of-stock" -> SelectSeq(its, OutOfStock)
          [] status = "expiring" -> SelectSeq(its, Expiring)
          [] status = "expired" -> SelectSeq(its, Expired)
          [] OTHER -> its

getStats(its, t) ==
    LET total == Len(its)
        lowStock == Len(getLowStockItems(its))
        expiring == Len(getExpiringSoonItems(its, t))
        expired == Len(getExpiredItems(its, t))
        inStock == total - lowStock - expired
        OutOfStock(item) == item.quantity = 0
    IN  [total |-> total, lowStock |-> lowStock, expiring |-> expiring,
         expired |-> expired, inStock |-> inStock,
         outOfStock |-> Len(SelectSeq(its, OutOfStock))]

\* ----------------------------------------------------------------- alerts
\* An alert is {type, item, priority}; its message and icon are display text
\* derived from the same item and are not part of the model.
Alert(type, item, priority) == [type |-> type, item |-> item, priority |-> priority]

AlertsOf(type, priority, its) == [i \in 1..Len(its) |-> Alert(type, its[i], priority)]

priorityOrder == [high |-> 3, medium |-> 2, low |-> 1]

priorityCompareAscending(a, b) == priorityOrder[a.priority] - priorityOrder[b.priority]

\* the comparator of criticalItems.sort: (a, b) => priorityOrder[b.priority] - priorityOrder[a.priority]
priorityCompare(a, b) == priorityOrder[b.priority] - priorityOrder[a.priority]

\* Array.prototype.sort with that comparator; the sort is stable (ECMAScript 2019)
RECURSIVE InsertSorted(_, _)
InsertSorted(x, s) ==
    IF s = <<>> THEN <<x>>
    ELSE IF priorityCompare(s[Len(s)], x) <= 0 THEN Append(s, x)
    ELSE Append(InsertSorted(x, SubSeq(s, 1, Len(s) - 1)), s[Len(s)])

RECURSIVE SortPrefix(_, _)
SortPrefix(s, n) ==
    IF n = 0 THEN <<>>
    ELSE InsertSorted(s[n], SortPrefix(s, n - 1))

sortByPriority(s) == SortPrefix(s, Len(s))

isOutOfStock(item) == item.quantity = 0

isCriticalLowUnguarded(item) ==
    item.quantity <= Floor(itemThreshold(item), 2)

isCriticalLow(item) ==
    item.quantity > 0 /\ item.quantity <= Floor(itemThreshold(item), 2)

isExpiringVerySoon(item, t) ==
    /\ LessEq(getDaysUntilExpiry(item.expiryDate, t), urgentExpiryDays)
    /\ Less(0, getDaysUntilExpiry(item.expiryDate, t))

getCriticalAlerts(its, t) ==
    LET ExpiringVerySoon(item) == isExpiringVerySoon(item, t)
        criticalItems ==
            AlertsOf("out-of-stock", "high", SelectSeq(its, isOutOfStock))
            \o AlertsOf("critical-low", "high", SelectSeq(its, isCriticalLow))
            \o AlertsOf("expired", "high", getExpiredItems(its, t))
            \o AlertsOf("expiring-soon", "medium", SelectSeq(its, ExpiringVerySoon))
    IN  sortByPriority(criticalItems)

\* DashboardManager.prepareCriticalAlerts
isDashboardCriticalLow(item) ==
    item.quantity > 0 /\ item.quantity <= Floor(OrDefault(item, dashboardDefaultThreshold), 2)

prepareCriticalAlerts(lowStockItems, expiringSoonItems, expiredItems, t) ==
    LET ExpiringVerySoon(item) == isExpiringVerySoon(item, t)
        alerts ==
            AlertsOf("expired", "high", expiredItems)
            \o AlertsOf("out-of-stock", "high", SelectSeq(lowStockItems, isOutOfStock))
            \o AlertsOf("critical-low", "high", SelectSeq(lowStockItems, isDashboardCriticalLow))
            \o AlertsOf("expiring-soon", "medium", SelectSeq(expiringSoonItems, ExpiringVerySoon))
    IN  sortByPriority(alerts)

\* InventoryAPI.handleAnalyticsRequest, as far as the dashboard's alerts use it
handleAnalyticsRequest(its, t) ==
    [stats |-> getStats(its, t),
     lowStockItems |-> getLowStockItems(its),
     expiringSoonItems |-> getExpiringSoonItems(its, t),
     expiredItems |-> getExpiredItems(its, t)]

\* ------------------------------------------------------------ the store
getItemById(its, id) ==
    IF FindIndex(its, id) = 0 THEN Null ELSE its[FindIndex(its, id)]

\* the collection after updateItem(id, updates) at instant t
updateItem(its, id, updates, t) ==
    LET index == FindIndex(its, id)
    IN  IF index # 0
        THEN [its EXCEPT ![index] =
                Spread(Spread(its[index], updates), [lastUpdated |-> TodayString(t)])]
        ELSE its

\* what updateItem(id, updates) returns
updateItemResult(its, id, updates, t) ==
    IF FindIndex(its, id) # 0
    THEN updateItem(its, id, updates, t)[FindIndex(its, id)]
    ELSE Null

updateQuantity(its, id, newQuantity, t) ==
    updateItem(its, id, [quantity |-> Max(0, newQuantity)], t)

\* InventoryAPI.updateQuantity: patchItem(id, { quantity }) -> updateItem
apiUpdateQuantity(its, id, quantity, t) ==
    updateItem(its, id, [quantity |-> quantity], t)

InBounds(q) == q >= -MaxQty /\ q <= MaxQty

\* the page once it is loaded: no call and no load in flight, the interval
\* timer of DashboardManager.init running
Calls == {1, 2}

Loaders == {"loadInventory", "loadDashboard", "loadAlerts"}

IdleCall == [pc |-> "idle"]

PageLoaded ==
    /\ calls = [c \in Calls |-> IdleCall]
    /\ dashboardManager = [refreshInterval |-> 1, autoRefreshEnabled |-> TRUE,
                           refreshRate |-> defaultRefreshRate]
    /\ timers = <<[rate |-> defaultRefreshRate, active |-> TRUE]>>
    /\ uiManager = [loading |-> FALSE, alertBadge |-> 0]
    /\ loads = [l \in Loaders |-> 0]

\* an operation of the store has run: what it was called with and returned
Did(op, a, r) == lastOp' = op /\ arg' = a /\ result' = r

Done(op, a, r) == Did(op, a, r) /\ UNCHANGED page

AddItem(itemData) ==
    /\ Len(items) < MaxItems
    /\ nextId <= MaxId
    /\ LET newItem == Spread(itemData, [id |-> nextId,
                                        dateAdded |-> TodayString(now),
                                        lastUpdated |-> TodayString(now)])
       IN  /\ items' = Append(items, newItem)
           /\ Done("addItem", itemData, newItem)
    /\ nextId' = nextId + 1
    /\ UNCHANGED now

UpdateItem(id, updates) ==
    /\ items' = updateItem(items, id, updates, now)
    /\ Done("updateItem", <<id, updates>>, updateItemResult(items, id, updates, now))
    /\ UNCHANGED <<now, nextId>>

\* deleteItem without the index !== -1 test: splice(-1, 1) removes the last record
DeleteItemUnchecked(id) ==
    /\ LET index == FindIndex(items, id)
       IN  IF index # 0
           THEN /\ items' = SubSeq(items, 1, index - 1) \o SubSeq(items, index + 1, Len(items))
                /\ Done("deleteItem", id, items[index])
           ELSE /\ items' = SubSeq(items, 1, Len(items) - 1)
                /\ Done("deleteItem", id, IF items = <<>> THEN Null ELSE items[Len(items)])
    /\ UNCHANGED <<now, nextId>>

DeleteItem(id) ==
    /\ LET index == FindIndex(items, id)
       IN  IF index # 0
           THEN /\ items' = SubSeq(items, 1, index - 1) \o SubSeq(items, index + 1, Len(items))
                /\ Done("deleteItem", id, items[index])
           ELSE /\ items' = items
                /\ Done("deleteItem", id, Null)
    /\ UNCHANGED <<now, nextId>>

UpdateQuantity(id, newQuantity) ==
    /\ items' = updateQuantity(items, id, newQuantity, now)
    /\ Done("updateQuantity", <<id, newQuantity>>,
            updateItemResult(items, id, [quantity |-> Max(0, newQuantity)], now))
    /\ UNCHANGED <<now, nextId>>

IncreaseQuantity(id, amount) ==
    /\ LET item == getItemById(items, id)
       IN  IF item # Null
           THEN /\ InBounds(item.quantity + amount)
                /\ items' = updateQuantity(items, id, item.quantity + amount, now)
                /\ Done("increaseQuantity", <<id, amount>>, getItemById(items', id))
           ELSE /\ items' = items
                /\ Done("increaseQuantity", <<id, amount>>, Null)
    /\ UNCHANGED <<now, nextId>>

DecreaseQuantity(id, amount) ==
    /\ LET item == getItemById(items, id)
       IN  IF item # Null
           THEN /\ InBounds(item.quantity - amount)
                /\ items' = updateQuantity(items, id, item.quantity - amount, now)
                /\ Done("decreaseQuantity", <<id, amount>>, getItemById(items', id))
           ELSE /\ items' = items
                /\ Done("decreaseQuantity", <<id, amount>>, Null)
    /\ UNCHANGED <<now, nextId>>

\* --------------------------------------------------------------- the API
\* The requests of one call are taken together here: no other operation runs
\* between the getItem and the PATCH of the same call.
ApiUpdateQuantity(id, quantity) ==
    /\ items' = apiUpdateQuantity(items, id, quantity, now)
    /\ Done("api.updateQuantity", <<id, quantity>>,
            updateItemResult(items, id, [quantity |-> quantity], now))
    /\ UNCHANGED <<now, nextId>>

ApiIncreaseQuantity(id, amount) ==
    /\ LET item == getItemById(items, id)
       IN  IF item # Null
           THEN /\ InBounds(item.quantity + amount)
                /\ items' = apiUpdateQuantity(items, id, item.quantity + amount, now)
                /\ Done("api.increaseQuantity", <<id, amount>>, getItemById(items', id))
           ELSE /\ items' = items
                /\ Done("api.increaseQuantity", <<id, amount>>, NotFound)
    /\ UNCHANGED <<now, nextId>>

ApiDecreaseQuantity(id, amount) ==
    /\ LET item == getItemById(items, id)
       IN  IF item # Null
           THEN /\ InBounds(item.quantity - amount)
                /\ items' = apiUpdateQuantity(items, id, Max(0, item.quantity - amount), now)
                /\ Done("api.decreaseQuantity", <<id, amount>>, getItemById(items', id))
           ELSE /\ items' = items
                /\ Done("api.decreaseQuantity", <<id, amount>>, NotFound)
    /\ UNCHANGED <<now, nextId>>

GetItemById(id) ==
    /\ Done("getItemById", id, getItemById(items, id))
    /\ UNCHANGED <<items, now, nextId>>

\* data.items is an array
hasItemsArray(data) == Has(data, "items")

ImportData(data) ==
    /\ IF hasItemsArray(data)
       THEN items' = data.items /\ Done("importData", data, TRUE)
       ELSE items' = items /\ Done("importData", data, FALSE)
    /\ UNCHANGED <<now, nextId>>

\* the clock advances within the day
Tick ==
    /\ now + 1 < (Today + 1) * TicksPerDay
    /\ now' = now + 1
    /\ Done("tick", Null, Null)
    /\ UNCHANGED <<items, nextId>>

\* --------------------------------------------------------------- queries
GetItemStatus(i) ==
    /\ Done("getItemStatus", i, getItemStatus(items[i], now))
    /\ UNCHANGED <<items, now, nextId>>

FilterByStatus(status) ==
    /\ Done("filterByStatus", status, filterByStatus(items, status, now))
    /\ UNCHANGED <<items, now, nextId>>

GetStats ==
    /\ Done("getStats", Null, getStats(items, now))
    /\ UNCHANGED <<items, now, nextId>>

GetLowStockItems ==
    /\ Done("getLowStockItems", Null, getLowStockItems(items))
    /\ UNCHANGED <<items, now, nextId>>

GetExpiringSoonItems ==
    /\ Done("getExpiringSoonItems", Null, getExpiringSoonItems(items, now))
    /\ UNCHANGED <<items, now, nextId>>

GetExpiredItems ==
    /\ Done("getExpiredItems", Null, getExpiredItems(items, now))
    /\ UNCHANGED <<items, now, nextId>>

GetCriticalAlerts ==
    /\ Done("getCriticalAlerts", Null, getCriticalAlerts(items, now))
    /\ UNCHANGED <<items, now, nextId>>

\* DashboardManager.updateCriticalAlerts on the analytics response
PrepareCriticalAlerts ==
    /\ LET analytics == handleAnalyticsRequest(items, now)
       IN  Done("prepareCriticalAlerts", Null,
                prepareCriticalAlerts(analytics.lowStockItems, analytics.expiringSoonItems,
                                      analytics.expiredItems, now))
    /\ UNCHANGED <<items, now, nextId>>

\* ---------------------------------------------------------- specifications
\* a stored record as addItem builds it from form data
ItemData ==
    [quantity : QtyInputs, expiryDate : ExpiryInputs]
    \cup [quantity : QtyInputs, expiryDate : ExpiryInputs, lowStockThreshold : ThresholdInputs]

StoreItemData ==
    [quantity : StoreQtyInputs, expiryDate : {Today + 50}]

Updates ==
    [quantity : NewQuantityInputs]
    \cup [lowStockThreshold : {0}]

\* an id of an exported file; generateId never returns it
importedId == 0

\* form data and partial updates that carry the fields the store assigns
CrudItemData ==
    {[quantity |-> 2, expiryDate |-> Today + 50],
     [quantity |-> 1, expiryDate |-> Today + 50, id |-> 1,
      dateAdded |-> Today - 5, lastUpdated |-> Today - 5]}

CrudUpdates ==
    {[quantity |-> 1], [id |-> importedId], [dateAdded |-> Today - 5], [lastUpdated |-> Today - 5]}

\* a record of an imported file
Imported(id) ==
    [id |-> id, quantity |-> 1, expiryDate |-> Today + 50,
     dateAdded |-> Today - 4, lastUpdated |-> Today - 4]

ImportInputs ==
    {[version |-> "1.0"],
     [items |-> <<Imported(importedId)>>, version |-> "1.0"],
     [items |-> <<Imported(importedId), Imported(importedId)>>, version |-> "1.0"]}

CrudIds == Ids \cup {importedId}

Stored(itemData, id) ==
    Spread(itemData, [id |-> id, dateAdded |-> Today - 1, lastUpdated |-> Today - 1])

CoreItemData ==
    [quantity : CoreQtyInputs, expiryDate : CoreExpiryInputs]
    \cup [quantity : CoreQtyInputs, expiryDate : CoreExpiryInputs,
          lowStockThreshold : CoreThresholdInputs]

RECURSIVE CoreCollections(_)
CoreCollections(n) ==
    IF n = 0 THEN {<<>>}
    ELSE CoreCollections(n - 1)
         \cup {Append(c, Stored(d, n)) : c \in {x \in CoreCollections(n - 1) : Len(x) = n - 1},
                                         d \in CoreItemData}

\* every collection of one record, and every collection of up to MaxItems
\* records over the smaller field sets
Collections == CoreCollections(MaxItems) \cup {<<Stored(d, 1)>> : d \in ItemData}

Instants == {Today * TicksPerDay + k : k \in 0..(TicksPerDay - 1)}

\* new InventoryData(): the collection is what an earlier session saved, and
\* an empty collection when that session deleted every record
Init ==
    /\ items = <<>>
    /\ now = Today * TicksPerDay
    /\ nextId = 1
    /\ lastOp = "constructor"
    /\ arg = Null
    /\ result = Null
    /\ PageLoaded

Next ==
    \/ \E d \in StoreItemData : AddItem(d)
    \/ \E id \in Ids, u \in Updates : UpdateItem(id, u)
    \/ \E id \in Ids : DeleteItem(id)
    \/ \E id \in Ids, q \in NewQuantityInputs : UpdateQuantity(id, q)
    \/ \E id \in Ids, a \in AmountInputs : IncreaseQuantity(id, a)
    \/ \E id \in Ids, a \in AmountInputs : DecreaseQuantity(id, a)
    \/ \E id \in Ids, q \in NewQuantityInputs : ApiUpdateQuantity(id, q)
    \/ \E id \in Ids, a \in AmountInputs : ApiIncreaseQuantity(id, a)
    \/ \E id \in Ids, a \in AmountInputs : ApiDecreaseQuantity(id, a)
    \/ Tick

Spec == Init /\ [][Next]_vars

\* the store's create, read, update, delete and import operations
NextCrud ==
    \/ \E d \in CrudItemData : AddItem(d)
    \/ \E id \in CrudIds, u \in CrudUpdates : UpdateItem(id, u)
    \/ \E id \in CrudIds : DeleteItem(id)
    \/ \E id \in CrudIds : GetItemById(id)
    \/ \E id \in CrudIds : UpdateQuantity(id, 0)
    \/ \E data \in ImportInputs : ImportData(data)

SpecCrud == Init /\ [][NextCrud]_vars

\* the queries, applied to every collection of well-formed records
InitQuery ==
    /\ items \in Collections
    /\ now \in Instants
    /\ nextId = Len(items) + 1
    /\ lastOp = "constructor"
    /\ arg = Null
    /\ result = Null
    /\ PageLoaded

NextQuery ==
    \/ \E i \in 1..Len(items) : GetItemStatus(i)
    \/ \E status \in Statuses : FilterByStatus(status)
    \/ GetStats
    \/ GetLowStockItems
    \/ GetExpiringSoonItems
    \/ GetExpiredItems
    \/ GetCriticalAlerts
    \/ PrepareCriticalAlerts

SpecQuery == InitQuery /\ [][NextQuery]_vars

\* =============================================================== properties
\* the effective threshold of the specification: the record's own threshold
\* when the field is present, the global default otherwise
effectiveThreshold(item) ==
    IF Has(item, "lowStockThreshold") THEN item.lowStockThreshold ELSE lowStockThreshold

\* the precedence chain of the specification
classifyStatus(item, t) ==
    IF item.quantity = 0 THEN "out-of-stock"
    ELSE IF isExpired(item.expiryDate, t) THEN "expired"
    ELSE IF isExpiringSoon(item.expiryDate, t) THEN "expiring"
    ELSE IF item.quantity <= effectiveThreshold(item) THEN "low-stock"
    ELSE "in-stock"

\* the number of records of the collection with the given status
CountStatus(status) ==
    Cardinality({i \in 1..Len(items) : getItemStatus(items[i], now) = status})

\* the records of the collection with the given status, in collection order
WithStatus(status) ==
    LET Keep(item) == getItemStatus(item, now) = status
    IN  SelectSeq(items, Keep)

\* the result holds an alert of the given kind for the given record
HasAlert(type, item) ==
    \E k \in 1..Len(result) : result[k].type = type /\ result[k].item = item

HasAlertWithPriority(type, item, priority) ==
    \E k \in 1..Len(result) :
        result[k].type = type /\ result[k].item = item /\ result[k].priority = priority

\* C1: getItemStatus returns one of the five statuses, the first that matches
\* in the order out-of-stock (quantity 0), expired, expiring, low-stock
\* (quantity <= effective threshold), in-stock.
C1_StatusByPrecedence ==
    lastOp = "getItemStatus" =>
        /\ result \in Statuses
        /\ result = classifyStatus(items[arg], now)

\* C2: every stored record has quantity >= 0 after any sequence of store and
\* API operations.
C2_QuantityNeverNegative ==
    \A i \in 1..Len(items) : items[i].quantity >= 0

\* C3: the four exclusive counters of getStats add up to total.
C3_StatsSumToTotal ==
    lastOp = "getStats" =>
        result.inStock + result.lowStock + result.expired + result.outOfStock = result.total

\* C4: getStats counts as lowStock the records whose status is low-stock and
\* as expired the records whose status is expired.
C4_StatsBucketsFollowStatus ==
    lastOp = "getStats" =>
        /\ result.lowStock = CountStatus("low-stock")
        /\ result.expired = CountStatus("expired")

\* C5: filterByStatus(s), for s one of in-stock, low-stock, out-of-stock and
\* expired, returns the records whose getItemStatus is s, in collection order.
C5_FilterMatchesStatus ==
    (lastOp = "filterByStatus" /\ arg \in {"in-stock", "low-stock", "out-of-stock", "expired"})
        => result = WithStatus(arg)

\* the position of a kind of alert in the order getCriticalAlerts generates them
KindRank(type) ==
    CASE type = "out-of-stock" -> 1
      [] type = "critical-low" -> 2
      [] type = "expired" -> 3
      [] type = "expiring-soon" -> 4

\* the position of a record in the collection
IndexOf(item) == FindIndex(items, item.id)

\* C6: getCriticalAlerts is ordered by priority descending, and among alerts
\* of equal priority by kind in generation order (out-of-stock, critical-low,
\* expired, expiring-soon), records in collection order within a kind.
C6_AlertsRanked ==
    lastOp = "getCriticalAlerts" =>
        \A i, j \in 1..Len(result) :
            i < j =>
                /\ priorityOrder[result[i].priority] >= priorityOrder[result[j].priority]
                /\ result[i].priority = result[j].priority =>
                      \/ KindRank(result[i].type) < KindRank(result[j].type)
                      \/ /\ result[i].type = result[j].type
                         /\ IndexOf(result[i].item) < IndexOf(result[j].item)

\* C6 witness: the out-of-stock alert of the second record, the expired alert
\* of the first record and an expiring-soon alert come out in that order.
C6_Witness ==
    /\ lastOp = "getCriticalAlerts"
    /\ Len(result) = 3
    /\ <<result[1].type, result[2].type, result[3].type>>
          = <<"out-of-stock", "expired", "expiring-soon">>
    /\ IndexOf(result[1].item) > IndexOf(result[2].item)

\* C7: for every record and every kind, getCriticalAlerts holds an alert of
\* that kind for the record iff the kind's rule holds, with the kind's
\* priority, and at most one alert per record and kind.
C7_AlertsIffRule ==
    lastOp = "getCriticalAlerts" =>
        /\ \A i \in 1..Len(items) :
              LET item == items[i]
                  days == getDaysUntilExpiry(item.expiryDate, now)
              IN  /\ HasAlert("out-of-stock", item) <=> item.quantity = 0
                  /\ HasAlert("critical-low", item) <=>
                        (0 < item.quantity
                         /\ item.quantity <= Floor(effectiveThreshold(item), 2))
                  /\ HasAlert("expired", item) <=> isExpired(item.expiryDate, now)
                  /\ HasAlert("expiring-soon", item) <=>
                        (Less(0, days) /\ LessEq(days, urgentExpiryDays))
        /\ \A k \in 1..Len(result) :
              /\ result[k].priority =
                    (IF result[k].type = "expiring-soon" THEN "medium" ELSE "high")
              /\ \A l \in 1..Len(result) :
                    (result[k].type = result[l].type /\ result[k].item = result[l].item)
                        => k = l

\* C8: a record with quantity 0 has no critical-low alert, whatever its
\* threshold; with quantity 0, threshold 10 and an expiry date of yesterday it
\* has an out-of-stock and an expired alert, both of priority high.
C8_OutOfStockNeverCriticalLow ==
    lastOp = "getCriticalAlerts" =>
        \A i \in 1..Len(items) :
            LET item == items[i]
            IN  item.quantity = 0 =>
                    /\ ~HasAlert("critical-low", item)
                    /\ (effectiveThreshold(item) = 10 /\ item.expiryDate = TodayString(now) - 1)
                          => /\ HasAlertWithPriority("out-of-stock", item, "high")
                             /\ HasAlertWithPriority("expired", item, "high")

\* C8 witness: the alerts of a record with quantity 0, its own threshold 10
\* and yesterday's expiry date have been computed.
C8_Witness ==
    /\ lastOp = "getCriticalAlerts"
    /\ \E i \in 1..Len(items) :
          /\ items[i].quantity = 0
          /\ Has(items[i], "lowStockThreshold")
          /\ items[i].lowStockThreshold = 10
          /\ items[i].expiryDate = TodayString(now) - 1
          /\ HasAlert("out-of-stock", items[i])
          /\ HasAlert("expired", items[i])

\* C9: a record whose lowStockThreshold is 0 or 1 never has a critical-low
\* alert, in getCriticalAlerts and in the dashboard's prepareCriticalAlerts.
C9_DegenerateThresholdNoCriticalLow ==
    lastOp \in {"getCriticalAlerts", "prepareCriticalAlerts"} =>
        \A k \in 1..Len(result) :
            (/\ Has(result[k].item, "lowStockThreshold")
             /\ result[k].item.lowStockThreshold \in {0, 1})
                => result[k].type # "critical-low"

\* C10: the low-stock cutoff is the record's own lowStockThreshold whenever
\* the field is present, 0 included, and the default 10 only when it is
\* absent: getLowStockItems and filterByStatus('low-stock') return the records
\* with 0 < quantity <= that cutoff, and getItemStatus of a record that is in
\* stock, not expired and not expiring is low-stock iff quantity <= that cutoff.
C10_OwnThresholdWhenPresent ==
    LET Low(item) == item.quantity > 0 /\ item.quantity <= effectiveThreshold(item)
    IN  /\ lastOp = "getLowStockItems" => result = SelectSeq(items, Low)
        /\ (lastOp = "filterByStatus" /\ arg = "low-stock") => result = SelectSeq(items, Low)
        /\ (lastOp = "getItemStatus" /\ result \in {"low-stock", "in-stock"})
              => (result = "low-stock" <=> items[arg].quantity <= effectiveThreshold(items[arg]))


\* ------------------------------------------------- the date utility methods
\* expiry dates around the reference day and around the warning windows
DateInputs == {InvalidDate} \cup ((Today - 2)..(Today + expiryWarningDays + 2))

WarningDayInputs == {urgentExpiryDays, expiryWarningDays}

IsExpired(expiryDate) ==
    /\ Done("isExpired", expiryDate, isExpired(expiryDate, now))
    /\ UNCHANGED <<items, now, nextId>>

IsExpiringSoon(expiryDate, days) ==
    /\ Done("isExpiringSoon", <<expiryDate, days>>, isExpiringSoonWithin(expiryDate, days, now))
    /\ UNCHANGED <<items, now, nextId>>

GetDaysUntilExpiry(expiryDate) ==
    /\ Done("getDaysUntilExpiry", expiryDate, getDaysUntilExpiry(expiryDate, now))
    /\ UNCHANGED <<items, now, nextId>>

InitDate ==
    /\ items = <<>>
    /\ now \in Instants
    /\ nextId = 1
    /\ lastOp = "constructor"
    /\ arg = Null
    /\ result = Null
    /\ PageLoaded

NextDate ==
    \/ \E d \in DateInputs : IsExpired(d)
    \/ \E d \in DateInputs, days \in WarningDayInputs : IsExpiringSoon(d, days)
    \/ \E d \in DateInputs : GetDaysUntilExpiry(d)

SpecDate == InitDate /\ [][NextDate]_vars

\* C11: isExpired is true iff the expiry day is strictly before the reference
\* day, at any time of the reference day.
C11_ExpiredByCalendarDay ==
    (lastOp = "isExpired" /\ arg # InvalidDate) =>
        (result <=> arg < TodayString(now))

\* C12: isExpiringSoon(expiryDate, warningDays) is true iff
\* 0 < daysUntilExpiry <= warningDays, daysUntilExpiry being the ceiling of
\* (expiry - reference) in whole days; it is false when daysUntilExpiry is 0.
C12_ExpiringSoonIffWithinWindow ==
    lastOp = "isExpiringSoon" =>
        LET days == getDaysUntilExpiry(arg[1], now)
            diffTime == DateOf(arg[1]) - now
        IN  /\ result <=> (Less(0, days) /\ LessEq(days, arg[2]))
            /\ days = 0 => ~result
            /\ arg[1] # InvalidDate =>
                  /\ days * TicksPerDay >= diffTime
                  /\ (days - 1) * TicksPerDay < diffTime

\* C12 witness: the expiry day is the reference day, the reference instant is
\* not midnight, daysUntilExpiry is 0 and isExpiringSoon is false.
C12_Witness ==
    /\ lastOp = "isExpiringSoon"
    /\ arg[1] = TodayString(now)
    /\ now > Today * TicksPerDay
    /\ getDaysUntilExpiry(arg[1], now) = 0
    /\ result = FALSE


\* the sequence holds the record
Contains(s, item) == \E k \in 1..Len(s) : s[k] = item

\* C13: isExpired implies daysUntilExpiry <= 0; no record has an expired and
\* an expiring-soon alert in one getCriticalAlerts result, and no record is in
\* both getExpiredItems and getExpiringSoonItems.
C13_ExpiredExcludesExpiringSoon ==
    /\ \A i \in 1..Len(items) :
          isExpired(items[i].expiryDate, now)
              => LessEq(getDaysUntilExpiry(items[i].expiryDate, now), 0)
    /\ lastOp = "getCriticalAlerts" =>
          \A i \in 1..Len(items) :
              ~(HasAlert("expired", items[i]) /\ HasAlert("expiring-soon", items[i]))
    /\ lastOp = "getExpiredItems" =>
          \A k \in 1..Len(result) : ~Contains(getExpiringSoonItems(items, now), result[k])
    /\ lastOp = "getExpiringSoonItems" =>
          \A k \in 1..Len(result) : ~Contains(getExpiredItems(items, now), result[k])

\* C13 witness: the alerts of a record that expires on the reference day,
\* after midnight: it is expired, its daysUntilExpiry is 0 and it has the
\* expired alert.
C13_Witness ==
    /\ lastOp = "getCriticalAlerts"
    /\ \E i \in 1..Len(items) :
          /\ items[i].expiryDate = TodayString(now)
          /\ isExpired(items[i].expiryDate, now)
          /\ getDaysUntilExpiry(items[i].expiryDate, now) = 0
          /\ HasAlert("expired", items[i])


\* -------------------------------------------------------- the activity feed
MaxActivityItems == 11

recentActivityLimit == 10

Min(a, b) == IF a <= b THEN a ELSE b

recencyCompareOldestFirst(a, b) == Minus(DateOf(a.lastUpdated), DateOf(b.lastUpdated))

\* the comparator of getRecentActivity: new Date(b.lastUpdated) - new Date(a.lastUpdated)
recencyCompare(a, b) == Minus(DateOf(b.lastUpdated), DateOf(a.lastUpdated))

\* [...this.items].sort(comparator): a stable sort of a copy
RECURSIVE InsertByRecency(_, _)
InsertByRecency(x, s) ==
    IF s = <<>> THEN <<x>>
    ELSE IF recencyCompare(s[Len(s)], x) <= 0 THEN Append(s, x)
    ELSE Append(InsertByRecency(x, SubSeq(s, 1, Len(s) - 1)), s[Len(s)])

RECURSIVE SortByRecencyPrefix(_, _)
SortByRecencyPrefix(s, n) ==
    IF n = 0 THEN <<>>
    ELSE InsertByRecency(s[n], SortByRecencyPrefix(s, n - 1))

sortByRecency(s) == SortByRecencyPrefix(s, Len(s))

\* an activity entry is {type, item, date}; message and icon are display text
Activity(item) == [type |-> "updated", item |-> item, date |-> item.lastUpdated]

getRecentActivity(its) ==
    LET sortedItems == sortByRecency(its)
        top == SubSeq(sortedItems, 1, Min(recentActivityLimit, Len(sortedItems)))
    IN  [k \in 1..Len(top) |-> Activity(top[k])]

\* getRecentActivity sorting this.items itself instead of the copy [...this.items]
GetRecentActivityInPlace ==
    /\ Done("getRecentActivity", Null, getRecentActivity(items))
    /\ items' = sortByRecency(items)
    /\ UNCHANGED <<now, nextId>>

GetRecentActivity ==
    /\ Done("getRecentActivity", Null, getRecentActivity(items))
    /\ UNCHANGED <<items, now, nextId>>

\* a stored record last updated on the given day
UpdatedOn(id, day) ==
    [id |-> id, quantity |-> 5, expiryDate |-> Today + 50,
     dateAdded |-> Today - 4, lastUpdated |-> day]

\* collections of up to MaxActivityItems records updated on one of two days,
\* and collections of up to MaxItems + 1 records updated on one of four days
ActivityCollections ==
    UNION {{[i \in 1..n |-> UpdatedOn(i, f[i])] : f \in [1..n -> {Today - 2, Today - 1}]}
              : n \in 0..MaxActivityItems}
    \cup UNION {{[i \in 1..n |-> UpdatedOn(i, f[i])] : f \in [1..n -> (Today - 3)..Today]}
                   : n \in 0..(MaxItems + 1)}

InitActivity ==
    /\ items \in ActivityCollections
    /\ now = Today * TicksPerDay
    /\ nextId = Len(items) + 1
    /\ lastOp = "constructor"
    /\ arg = Null
    /\ result = Null
    /\ PageLoaded

NextActivity == GetRecentActivity

SpecActivity == InitActivity /\ [][NextActivity]_vars

\* record a comes before record b in the feed of the collection: it was
\* updated later, or on the same day and it is earlier in the collection
FeedsBefore(a, b, its) ==
    \/ a.lastUpdated > b.lastUpdated
    \/ a.lastUpdated = b.lastUpdated /\ FindIndex(its, a.id) < FindIndex(its, b.id)

\* r is the feed of the collection its
IsRecentActivityOf(r, its) ==
    /\ Len(r) = Min(recentActivityLimit, Len(its))
    /\ \A k \in 1..Len(r) : Contains(its, r[k].item) /\ r[k].date = r[k].item.lastUpdated
    /\ \A k, l \in 1..Len(r) : k < l => FeedsBefore(r[k].item, r[l].item, its)
    /\ \A i \in 1..Len(its) :
          (\A k \in 1..Len(r) : r[k].item # its[i])
              => \A k \in 1..Len(r) : FeedsBefore(r[k].item, its[i], its)

\* C14: getRecentActivity returns one entry per record for the min(10, n) most
\* recently updated records, by lastUpdated descending, records with equal
\* lastUpdated in collection order, and leaves the stored collection as it is.
C14_RecentActivityFeed ==
    [][lastOp' = "getRecentActivity" =>
          (items' = items /\ IsRecentActivityOf(result', items))]_vars

\* C14 witness: the feed of eleven records has ten entries, two of them with
\* the same lastUpdated, and does not start with the first record.
C14_Witness ==
    /\ lastOp = "getRecentActivity"
    /\ Len(items) = recentActivityLimit + 1
    /\ Len(result) = recentActivityLimit
    /\ result[1].item # items[1]
    /\ \E k \in 1..(Len(result) - 1) : result[k].date = result[k + 1].date


\* ------------------------------------------------------------------ search
\* A string is a sequence of characters; "A" is the one upper-case letter.
NameInputs == {<<"A", "b">>, <<"b">>}
CategoryInputs == {<<"A">>, <<"b", "b">>}
BatchNumberInputs == {<<"b", "a">>}
DescriptionInputs == {<<"a", "A">>}
QueryInputs == {<<>>, <<"a">>, <<"A">>, <<"b">>, <<"a", "b">>, <<"b", "b", "b">>}

\* String.prototype.toLowerCase
toLowerCase(str) == [k \in 1..Len(str) |-> IF str[k] = "A" THEN "a" ELSE str[k]]

\* String.prototype.includes
includes(str, searchString) ==
    \E k \in 1..(Len(str) - Len(searchString) + 1) :
        \A n \in 1..Len(searchString) : str[k + n - 1] = searchString[n]

\* how a call completes: it returns a value or it throws
Returned(value) == [type |-> "return", value |-> value]

Thrown(error) == [type |-> "throw", value |-> error]

\* item.name and item.category do not contain the term
nameAndCategoryMiss(item, searchTerm) ==
    /\ ~includes(toLowerCase(item.name), searchTerm)
    /\ ~includes(toLowerCase(item.category), searchTerm)

\* the callback of searchItems reads item.batchNumber.toLowerCase of undefined
searchThrowsBatchFirst(item, searchTerm) == ~Has(item, "batchNumber")

searchThrows(item, searchTerm) ==
    nameAndCategoryMiss(item, searchTerm) /\ ~Has(item, "batchNumber")

\* the callback of searchItems, when it does not throw
searchMatches(item, searchTerm) ==
    \/ includes(toLowerCase(item.name), searchTerm)
    \/ includes(toLowerCase(item.category), searchTerm)
    \/ Has(item, "batchNumber") /\ includes(toLowerCase(item.batchNumber), searchTerm)
    \/ /\ Has(item, "description")
       /\ item.description # <<>>
       /\ includes(toLowerCase(item.description), searchTerm)

searchItems(its, query) ==
    LET searchTerm == toLowerCase(query)
        Matches(item) == searchMatches(item, searchTerm)
    IN  IF \E i \in 1..Len(its) : searchThrows(its[i], searchTerm)
        THEN Thrown("TypeError")
        ELSE Returned(SelectSeq(its, Matches))

filterByCategory(its, category) ==
    LET Same(item) == item.category = category
    IN  IF category = <<>> THEN its ELSE SelectSeq(its, Same)

SearchItems(query) ==
    /\ Done("searchItems", query, searchItems(items, query))
    /\ UNCHANGED <<items, now, nextId>>

FilterByCategory(category) ==
    /\ Done("filterByCategory", category, filterByCategory(items, category))
    /\ UNCHANGED <<items, now, nextId>>

\* well-formed records: the required fields, and any of the optional
\* batchNumber and description
NamedItemData ==
    LET required == [name : NameInputs, category : CategoryInputs,
                     quantity : {5}, expiryDate : {Today + 50}]
    IN  UNION {{r, Spread(r, [batchNumber |-> b]), Spread(r, [description |-> d]),
                Spread(r, [batchNumber |-> b, description |-> d])}
                  : r \in required, b \in BatchNumberInputs, d \in DescriptionInputs}

RECURSIVE NamedCollections(_)
NamedCollections(n) ==
    IF n = 0 THEN {<<>>}
    ELSE NamedCollections(n - 1)
         \cup {Append(c, Stored(d, n)) : c \in {x \in NamedCollections(n - 1) : Len(x) = n - 1},
                                         d \in NamedItemData}

InitSearch ==
    /\ items \in NamedCollections(MaxItems)
    /\ now = Today * TicksPerDay
    /\ nextId = Len(items) + 1
    /\ lastOp = "constructor"
    /\ arg = Null
    /\ result = Null
    /\ PageLoaded

NextSearch ==
    \/ \E query \in QueryInputs : SearchItems(query)
    \/ \E category \in CategoryInputs \cup {<<>>} : FilterByCategory(category)

SpecSearch == InitSearch /\ [][NextSearch]_vars

\* C15: searchItems with the empty query returns every record of the
\* collection, once and in collection order, also when records have no
\* batchNumber or description.
C15_EmptyQueryReturnsAll ==
    (lastOp = "searchItems" /\ arg = <<>>) => result = Returned(items)

\* C15 witness: the empty query has been run on two records, one of them
\* without batchNumber and without description.
C15_Witness ==
    /\ lastOp = "searchItems"
    /\ arg = <<>>
    /\ Len(items) = 2
    /\ \E i \in 1..Len(items) :
          ~Has(items[i], "batchNumber") /\ ~Has(items[i], "description")
    /\ result.type = "return"
    /\ result.value = items

\* C16: the queries return a result without raising an error on well-formed
\* records that may omit batchNumber, description and lowStockThreshold;
\* searchItems takes a missing batchNumber as not matching.
C16_SearchIsTotal ==
    lastOp = "searchItems" =>
        LET Matches(item) == searchMatches(item, toLowerCase(arg))
        IN  result = Returned(SelectSeq(items, Matches))


\* C17: getItemById, updateItem and deleteItem called with an id that no
\* stored record has return the absent value and leave the stored collection
\* (records, fields, order) unchanged.
C17_AbsentIdReturnsAbsent ==
    [][/\ (lastOp' \in {"getItemById", "deleteItem"} /\ FindIndex(items, arg') = 0)
            => (result' = Null /\ items' = items)
       /\ (lastOp' = "updateItem" /\ FindIndex(items, arg'[1]) = 0)
            => (result' = Null /\ items' = items)]_vars

\* C17 witness: deleteItem has been called on a non-empty collection with an
\* id that none of its records has, and returned the absent value.
C17_Witness ==
    /\ lastOp = "deleteItem"
    /\ Len(items) > 0
    /\ FindIndex(items, arg) = 0
    /\ result = Null

\* C18: after any sequence of addItem, updateItem, deleteItem and importData
\* the stored records have pairwise distinct ids, and updateItem leaves the id
\* of every record as it was.
C18_IdsUniqueAndImmutable ==
    [][/\ \A i, j \in 1..Len(items') : i # j => items'[i].id # items'[j].id
       /\ lastOp' = "updateItem" =>
              \A i \in 1..Len(items) : items'[i].id = items[i].id]_vars

\* C19: addItem creates a record with dateAdded = lastUpdated = the current
\* date whatever its input carries, and every successful update (quantity
\* changes included) sets lastUpdated to the current date and leaves dateAdded
\* unchanged whatever the partial update carries.
C19_DatesAssignedByStore ==
    [][/\ lastOp' = "addItem" =>
              /\ items'[Len(items')].dateAdded = TodayString(now)
              /\ items'[Len(items')].lastUpdated = TodayString(now)
       /\ (lastOp' \in {"updateItem", "updateQuantity"} /\ FindIndex(items, arg'[1]) # 0) =>
              LET index == FindIndex(items, arg'[1])
              IN  /\ items'[index].lastUpdated = TodayString(now)
                  /\ items'[index].dateAdded = items[index].dateAdded]_vars

\* C20: getItemStatus never returns low-stock or in-stock for a record whose
\* expiryDate cannot be parsed as a calendar date.
C20_InvalidDateNotClassified ==
    (lastOp = "getItemStatus" /\ items[arg].expiryDate = InvalidDate)
        => result \notin {"low-stock", "in-stock"}


\* ------------------------------------------------------------ validation
\* form data handed to validateItemData: every field may be missing, a string
\* may be empty, the quantity may be 0 or negative, the date unparseable
ValidatedItemData ==
    LET Optional(field, values) == {[absent |-> TRUE]} \cup [present : {TRUE}, value : values]
        Fields == [name : Optional("name", {<<>>, <<"b">>}),
                   category : Optional("category", {<<>>, <<"A">>}),
                   quantity : Optional("quantity", {-1, 0, 2}),
                   expiryDate : Optional("expiryDate", {InvalidDate, Today + 5})]
        Present(f) == {field \in DOMAIN f : Has(f[field], "present")}
    IN  {[field \in Present(f) |-> f[field].value] : f \in Fields}

\* Utils.isValidDate
isValidDate(dateString) == DateOf(dateString) # NaN

\* !itemData[field]: the field is undefined, 0 or ''
isFalsy(itemData, field) ==
    \/ ~Has(itemData, field)
    \/ field = "quantity" /\ itemData.quantity = 0
    \/ field \in {"name", "category"} /\ itemData[field] = <<>>

requiredFields == <<"name", "category", "quantity", "expiryDate">>

requiredMessage(field) == <<field, "is required">>

\* the errors array of validateItemData, in the order of the pushes
validationErrors(itemData) ==
    LET Missing(field) == isFalsy(itemData, field)
        missing == SelectSeq(requiredFields, Missing)
    IN  [k \in 1..Len(missing) |-> requiredMessage(missing[k])]
        \o (IF ~isFalsy(itemData, "quantity") /\ itemData.quantity < 0
            THEN <<(<<"Quantity must be non-negative">>)>> ELSE <<>>)
        \o (IF ~isFalsy(itemData, "expiryDate") /\ ~isValidDate(itemData.expiryDate)
            THEN <<(<<"Invalid expiry date">>)>> ELSE <<>>)

ValidationError(errors) == [name |-> "ValidationError", errors |-> errors]

validateItemData(itemData) ==
    IF Len(validationErrors(itemData)) > 0
    THEN Thrown(ValidationError(validationErrors(itemData)))
    ELSE Returned(TRUE)

ValidateItemData(itemData) ==
    /\ Done("validateItemData", itemData, validateItemData(itemData))
    /\ UNCHANGED <<items, now, nextId>>

NextValidate == \E itemData \in ValidatedItemData : ValidateItemData(itemData)

SpecValidate == Init /\ [][NextValidate]_vars

\* the messages of the rules that the input violates: a required field is
\* missing (an empty string is missing, the quantity 0 is present), the
\* quantity is negative, the expiry date is not a date
violatedRules(itemData) ==
    {requiredMessage(requiredFields[k]) : k \in {n \in 1..Len(requiredFields) :
        \/ ~Has(itemData, requiredFields[n])
        \/ requiredFields[n] \in {"name", "category"} /\ itemData[requiredFields[n]] = <<>>}}
    \cup (IF Has(itemData, "quantity") /\ itemData.quantity < 0
          THEN {<<"Quantity must be non-negative">>} ELSE {})
    \cup (IF Has(itemData, "expiryDate") /\ ~isValidDate(itemData.expiryDate)
          THEN {<<"Invalid expiry date">>} ELSE {})

\* C21: validateItemData accepts exactly the inputs that violate no rule
\* (quantity 0 is a valid present value) and otherwise throws one
\* ValidationError whose errors hold one message per violated rule.
C21_ValidationAcceptsIffValid ==
    lastOp = "validateItemData" =>
        IF violatedRules(arg) = {}
        THEN result.type = "return"
        ELSE /\ result.type = "throw"
             /\ result.value.name = "ValidationError"
             /\ Len(result.value.errors) = Cardinality(violatedRules(arg))
             /\ {result.value.errors[k] : k \in 1..Len(result.value.errors)} = violatedRules(arg)


\* --------------------------------------------------------- read operations
getAllItems(its) == its

\* InventoryAPI.handleAnalyticsRequest with all the fields of the response
analyticsResponse(its, t) ==
    Spread(handleAnalyticsRequest(its, t), [recentActivity |-> getRecentActivity(its)])

handleAlertsRequest(its, t) ==
    [critical |-> getCriticalAlerts(its, t),
     lowStock |-> getLowStockItems(its),
     expiring |-> getExpiringSoonItems(its, t),
     expired |-> getExpiredItems(its, t)]

GetAllItems ==
    /\ Done("getAllItems", Null, getAllItems(items))
    /\ UNCHANGED <<items, now, nextId>>

HandleAnalyticsRequest ==
    /\ Done("handleAnalyticsRequest", Null, analyticsResponse(items, now))
    /\ UNCHANGED <<items, now, nextId>>

HandleAlertsRequest ==
    /\ Done("handleAlertsRequest", Null, handleAlertsRequest(items, now))
    /\ UNCHANGED <<items, now, nextId>>

\* stored records with every field the read operations look at
ReadRecords(id) ==
    {[id |-> id, name |-> <<"A", "b">>, category |-> <<"A">>, batchNumber |-> <<"b", "a">>,
      quantity |-> q, expiryDate |-> e, dateAdded |-> Today - 4, lastUpdated |-> u]
        : q \in {0, 11}, e \in {Today - 1, Today + 7}, u \in {Today - 2, Today - 1}}

RECURSIVE ReadCollections(_)
ReadCollections(n) ==
    IF n = 0 THEN {<<>>}
    ELSE ReadCollections(n - 1)
         \cup {Append(c, r) : c \in {x \in ReadCollections(n - 1) : Len(x) = n - 1},
                              r \in ReadRecords(n)}

InitRead ==
    /\ items \in ReadCollections(MaxItems)
    /\ now = Today * TicksPerDay
    /\ nextId = Len(items) + 1
    /\ lastOp = "constructor"
    /\ arg = Null
    /\ result = Null
    /\ PageLoaded

NextRead ==
    \/ GetAllItems
    \/ \E id \in Ids : GetItemById(id)
    \/ \E query \in {<<>>, <<"b">>} : SearchItems(query)
    \/ \E category \in {<<"A">>} : FilterByCategory(category)
    \/ \E status \in Statuses : FilterByStatus(status)
    \/ GetStats
    \/ GetLowStockItems
    \/ GetExpiringSoonItems
    \/ GetExpiredItems
    \/ GetCriticalAlerts
    \/ GetRecentActivity
    \/ HandleAnalyticsRequest
    \/ HandleAlertsRequest

SpecRead == InitRead /\ [][NextRead]_vars

\* C22: no read operation adds, removes, reorders or modifies stored records.
C22_ReadsLeaveStoreUnchanged ==
    [][lastOp' \in {"getAllItems", "getItemById", "searchItems", "filterByCategory",
                    "filterByStatus", "getStats", "getLowStockItems",
                    "getExpiringSoonItems", "getExpiredItems", "getCriticalAlerts",
                    "getRecentActivity", "handleAnalyticsRequest", "handleAlertsRequest"}
            => items' = items]_vars

\* C22 witness: getRecentActivity has run on a collection that is not in
\* most-recent-first order, so its sort had records to move.
C22_Witness ==
    /\ lastOp = "getRecentActivity"
    /\ Len(items) > 1
    /\ sortByRecency(items) # items


\* C23: filterByStatus('expiring') returns the records that are expiring soon
\* and not expired, whatever their quantity, and equals getExpiringSoonItems.
C23_ExpiringFilterIgnoresPrecedence ==
    (lastOp = "filterByStatus" /\ arg = "expiring") =>
        LET ExpiringNotExpired(item) ==
                /\ item.expiryDate # InvalidDate
                /\ item.expiryDate * TicksPerDay - now > 0
                /\ item.expiryDate * TicksPerDay - now <= expiryWarningDays * TicksPerDay
                /\ ~(item.expiryDate < TodayString(now))
        IN  /\ result = SelectSeq(items, ExpiringNotExpired)
            /\ result = getExpiringSoonItems(items, now)

\* C23 witness: the expiring filter has returned a record with quantity 0 and
\* a record with a quantity at or below its threshold.
C23_Witness ==
    /\ lastOp = "filterByStatus"
    /\ arg = "expiring"
    /\ \E k \in 1..Len(result) : result[k].quantity = 0
    /\ \E k \in 1..Len(result) :
          result[k].quantity > 0 /\ result[k].quantity <= effectiveThreshold(result[k])


\* the (kind, record) pairs of a sequence of alerts
AlertPairs(alerts) == {<<alerts[k].type, alerts[k].item>> : k \in 1..Len(alerts)}

\* two sequences of alerts never order two kinds in opposite ways
SameOrderOfKinds(a, b) ==
    \A i, j \in 1..Len(a) : \A m, n \in 1..Len(b) :
        (i < j /\ m < n /\ a[i].type # a[j].type)
            => ~(b[m].type = a[j].type /\ b[n].type = a[i].type)

\* C25: the dashboard's prepareCriticalAlerts on the analytics response holds
\* the same (kind, record) pairs as getCriticalAlerts on the same collection,
\* with the kinds in the same relative order, and an out-of-stock alert for
\* every record with quantity 0.
C25_DashboardAlertsMatchStore ==
    lastOp = "prepareCriticalAlerts" =>
        /\ AlertPairs(result) = AlertPairs(getCriticalAlerts(items, now))
        /\ SameOrderOfKinds(result, getCriticalAlerts(items, now))
        /\ \A i \in 1..Len(items) :
              items[i].quantity = 0 => HasAlert("out-of-stock", items[i])

\* C26: every counter of getStats is an integer between 0 and total.
C26_StatsCountersInRange ==
    lastOp = "getStats" =>
        \A counter \in {"total", "inStock", "lowStock", "expiring", "expired", "outOfStock"} :
            result[counter] \in 0..result.total


\* ------------------------------------------------------ filtered item lists
\* currentFilters of the inventory view: '' stands for a filter that is not set
FilterInputs ==
    [search : {<<>>, <<"b">>, <<"a", "b">>},
     category : {<<>>, <<"A">>, <<"b", "b">>},
     status : {"", "expired", "out-of-stock"}]

\* the query string getAllItems appends to the endpoint is not empty
hasQueryParameters(filters) ==
    filters.category # <<>> \/ filters.status # "" \/ filters.search # <<>>

\* InventoryAPI.simulateAPICall on the endpoint of the item collection: only
\* the bare endpoint is a case of the switch
simulateGetItems(its, withQuery) ==
    IF withQuery THEN Thrown("Endpoint not found") ELSE Returned(getAllItems(its))

\* InventoryAPI.applyFilters
applyFilters(its, fetched, filters, t) ==
    LET searched == IF filters.search # <<>>
                    THEN searchItems(its, filters.search)
                    ELSE Returned(fetched)
        InCategory(item) == item.category = filters.category
    IN  IF searched.type = "throw" THEN searched
        ELSE LET categorised == IF filters.category # <<>>
                                THEN SelectSeq(searched.value, InCategory)
                                ELSE searched.value
             IN  Returned(IF filters.status # ""
                          THEN filterByStatus(its, filters.status, t)
                          ELSE categorised)

\* InventoryAPI.getAllItems(filters)
apiGetAllItems(its, filters, t) ==
    LET response == simulateGetItems(its, hasQueryParameters(filters))
    IN  IF response.type = "throw" THEN response
        ELSE applyFilters(its, response.value, filters, t)

ApiGetAllItems(filters) ==
    /\ Done("api.getAllItems", filters, apiGetAllItems(items, filters, now))
    /\ UNCHANGED <<items, now, nextId>>

ApplyFilters(filters) ==
    /\ Done("api.applyFilters", filters, applyFilters(items, getAllItems(items), filters, now))
    /\ UNCHANGED <<items, now, nextId>>

NextFilter ==
    \/ \E filters \in FilterInputs : ApiGetAllItems(filters)
    \/ \E filters \in FilterInputs : ApplyFilters(filters)

SpecFilter == InitRead /\ [][NextFilter]_vars

\* the records that pass every filter that is set, in collection order
matchesAllFilters(item, filters) ==
    /\ filters.search # <<>> =>
          \/ includes(toLowerCase(item.name), toLowerCase(filters.search))
          \/ includes(toLowerCase(item.category), toLowerCase(filters.search))
          \/ includes(toLowerCase(item.batchNumber), toLowerCase(filters.search))
    /\ filters.category # <<>> => item.category = filters.category
    /\ filters.status # "" => Contains(filterByStatus(items, filters.status, now), item)

\* C27: getAllItems(filters) on the API returns exactly the records that match
\* the search query, the category and the status filter that are set.
C27_FiltersIntersect ==
    lastOp = "api.getAllItems" =>
        LET Matches(item) == matchesAllFilters(item, arg)
        IN  result = Returned(SelectSeq(items, Matches))


\* ------------------------------------------- asynchronous quantity changes
\* A call of increaseQuantity, decreaseQuantity (InventoryAPI) or
\* quickAdjustQuantity (InventoryManager) awaits getItem, computes the new
\* quantity from the item it received, then awaits updateQuantity; other calls
\* run while it waits.
AdjustOps == {"increaseQuantity", "decreaseQuantity", "quickAdjustQuantity"}

AdjustAmounts == {1, 2}

\* the record the calls adjust
AdjustedItem == Stored([quantity |-> 5, expiryDate |-> Today + 50], 1)

\* the quantity a call asks updateQuantity to store, from the item it read
adjustedQuantity(op, item, amount) ==
    CASE op = "increaseQuantity" -> item.quantity + amount
      [] op = "decreaseQuantity" -> Max(0, item.quantity - amount)
      [] op = "quickAdjustQuantity" -> Max(0, item.quantity + amount)

\* the call starts: request('GET', '/inventory/<id>') is under way
StartAdjustment(c, op, id, amount) ==
    /\ calls[c].pc = "idle"
    /\ \A d \in Calls : calls[d].pc \notin {"done", "failed"}
    /\ calls' = [calls EXCEPT ![c] = [pc |-> "getItem", op |-> op, id |-> id, amount |-> amount]]
    /\ Did(op, <<c, id, amount>>, Null)
    /\ UNCHANGED <<items, now, nextId, dashboardManager, timers, uiManager, loads>>

\* getItem answers: the call computes the new quantity and sends the update
GetItemResponds(c) ==
    /\ calls[c].pc = "getItem"
    /\ LET item == getItemById(items, calls[c].id)
       IN  IF item # Null
           THEN calls' = [calls EXCEPT ![c] =
                    Spread(@, [pc |-> "updateQuantity",
                               newQuantity |-> adjustedQuantity(@.op, item, @.amount)])]
           ELSE calls' = [calls EXCEPT ![c] = Spread(@, [pc |-> "failed"])]
    /\ Did("getItem", c, getItemById(items, calls[c].id))
    /\ UNCHANGED <<items, now, nextId, dashboardManager, timers, uiManager, loads>>

\* updateQuantity answers: the store holds the quantity the call computed
UpdateQuantityResponds(c) ==
    /\ calls[c].pc = "updateQuantity"
    /\ items' = apiUpdateQuantity(items, calls[c].id, calls[c].newQuantity, now)
    /\ calls' = [calls EXCEPT ![c] = Spread(@, [pc |-> "done"])]
    /\ Did("updateQuantity", c,
           updateItemResult(items, calls[c].id, [quantity |-> calls[c].newQuantity], now))
    /\ UNCHANGED <<now, nextId, dashboardManager, timers, uiManager, loads>>

InitAdjust ==
    /\ items = <<AdjustedItem>>
    /\ now = Today * TicksPerDay
    /\ nextId = 2
    /\ lastOp = "constructor"
    /\ arg = Null
    /\ result = Null
    /\ PageLoaded

NextAdjust ==
    \/ \E c \in Calls, op \in AdjustOps, id \in {1, 2}, amount \in AdjustAmounts :
          StartAdjustment(c, op, id, amount)
    \/ \E c \in Calls : GetItemResponds(c)
    \/ \E c \in Calls : UpdateQuantityResponds(c)

SpecAdjust == InitAdjust /\ [][NextAdjust]_vars

\* what a call adds to the quantity
adjustment(call) ==
    IF call.op = "decreaseQuantity" THEN 0 - call.amount ELSE call.amount

\* C24: when two adjustments of the same item, started before either
\* completes, have both completed, the quantity is the initial quantity plus
\* both amounts (no amount here reaches the clamp at 0).
C24_NoLostAdjustment ==
    (/\ \A c \in Calls : calls[c].pc = "done"
     /\ \A c \in Calls : calls[c].id = AdjustedItem.id)
        => items[1].quantity =
              Max(0, AdjustedItem.quantity + adjustment(calls[1]) + adjustment(calls[2]))


\* ------------------------------------------------------------------ the page
MaxTimers == 3
MaxInFlight == 1

\* this.refreshInterval = null
noInterval == 0

RefreshRates == {defaultRefreshRate, 2 * defaultRefreshRate}

\* the handles of the interval timers that have not been cleared
ActiveTimers(ts) == {h \in 1..Len(ts) : ts[h].active}

\* setInterval: a new timer, whose handle is returned
setInterval(ts, rate) == Append(ts, [rate |-> rate, active |-> TRUE])

clearInterval(ts, h) ==
    IF h \in 1..Len(ts) THEN [ts EXCEPT ![h].active = FALSE] ELSE ts

\* The auto-refresh methods of DashboardManager, on the pair s of the manager's
\* fields (s.manager) and the browser's timers (s.timers).
\* startAutoRefresh that does not clear the running interval first
startAutoRefreshWithoutClear(s) ==
    IF s.manager.autoRefreshEnabled
    THEN [manager |-> [s.manager EXCEPT !.refreshInterval = Len(s.timers) + 1],
          timers |-> setInterval(s.timers, s.manager.refreshRate)]
    ELSE s

startAutoRefresh(s) ==
    LET cleared == IF s.manager.refreshInterval # noInterval
                   THEN clearInterval(s.timers, s.manager.refreshInterval)
                   ELSE s.timers
    IN  IF s.manager.autoRefreshEnabled
        THEN [manager |-> [s.manager EXCEPT !.refreshInterval = Len(cleared) + 1],
              timers |-> setInterval(cleared, s.manager.refreshRate)]
        ELSE [manager |-> s.manager, timers |-> cleared]

stopAutoRefresh(s) ==
    IF s.manager.refreshInterval # noInterval
    THEN [manager |-> [s.manager EXCEPT !.refreshInterval = noInterval],
          timers |-> clearInterval(s.timers, s.manager.refreshInterval)]
    ELSE s

toggleAutoRefresh(s, enabled) ==
    LET set == [s EXCEPT !.manager.autoRefreshEnabled = enabled]
    IN  IF enabled THEN startAutoRefresh(set) ELSE stopAutoRefresh(set)

setRefreshRate(s, rate) ==
    LET set == [s EXCEPT !.manager.refreshRate = rate]
    IN  IF set.manager.autoRefreshEnabled THEN startAutoRefresh(set) ELSE set

\* the manager and the timers before a call
AutoRefresh == [manager |-> dashboardManager, timers |-> timers]

\* the call leaves the manager and the timers as s
AutoRefreshBecomes(s) ==
    /\ Len(s.timers) <= MaxTimers
    /\ dashboardManager' = s.manager
    /\ timers' = s.timers
    /\ UNCHANGED <<items, now, nextId, calls, uiManager, loads>>

StartAutoRefresh ==
    /\ AutoRefreshBecomes(startAutoRefresh(AutoRefresh))
    /\ Did("startAutoRefresh", Null, Null)

StopAutoRefresh ==
    /\ AutoRefreshBecomes(stopAutoRefresh(AutoRefresh))
    /\ Did("stopAutoRefresh", Null, Null)

ToggleAutoRefresh(enabled) ==
    /\ AutoRefreshBecomes(toggleAutoRefresh(AutoRefresh, enabled))
    /\ Did("toggleAutoRefresh", enabled, Null)

SetRefreshRate(rate) ==
    /\ AutoRefreshBecomes(setRefreshRate(AutoRefresh, rate))
    /\ Did("setRefreshRate", rate, Null)


\* DashboardManager.updateAlertBadge: the high-priority alerts of the dashboard
dashboardAlertCount(analytics, t) ==
    LET criticalAlerts == prepareCriticalAlerts(analytics.lowStockItems,
                              analytics.expiringSoonItems, analytics.expiredItems, t)
        High(alert) == alert.priority = "high"
    IN  Len(SelectSeq(criticalAlerts, High))

\* AlertsManager.updateAlertCounts: totalCount
alertsTotalCount(alerts) ==
    Len(alerts.lowStock) + Len(alerts.expiring) + Len(alerts.expired)

\* UIManager.showLoading / hideLoading / updateAlertBadge
showLoading(ui) == [ui EXCEPT !.loading = TRUE]

hideLoading(ui) == [ui EXCEPT !.loading = FALSE]

updateAlertBadge(ui, count) == [ui EXCEPT !.alertBadge = count]

\* what a load does with the response it awaited
updateFromResponse(ui, loader, its, t) ==
    CASE loader = "loadDashboard" ->
            updateAlertBadge(ui, dashboardAlertCount(analyticsResponse(its, t), t))
      [] loader = "loadAlerts" ->
            updateAlertBadge(ui, alertsTotalCount(handleAlertsRequest(its, t)))
      [] OTHER -> ui

\* a load starts: showLoading, then the request is awaited
LoadStarts(loader) ==
    /\ loads[loader] < MaxInFlight
    /\ loads' = [loads EXCEPT ![loader] = @ + 1]
    /\ uiManager' = showLoading(uiManager)
    /\ Did(loader, Null, Null)
    /\ UNCHANGED <<items, now, nextId, calls, dashboardManager, timers>>

\* the response arrives: the page is updated, finally hideLoading
LoadSucceeds(loader) ==
    /\ loads[loader] > 0
    /\ loads' = [loads EXCEPT ![loader] = @ - 1]
    /\ uiManager' = hideLoading(updateFromResponse(uiManager, loader, items, now))
    /\ Did("loaded", loader, Null)
    /\ UNCHANGED <<items, now, nextId, calls, dashboardManager, timers>>

\* the request fails: catch shows a toast, finally hideLoading
LoadFails(loader) ==
    /\ loads[loader] > 0
    /\ loads' = [loads EXCEPT ![loader] = @ - 1]
    /\ uiManager' = hideLoading(uiManager)
    /\ Did("loadFailed", loader, Null)
    /\ UNCHANGED <<items, now, nextId, calls, dashboardManager, timers>>

\* the interval timer fires on the dashboard section: refreshDashboard
TimerFires(h) ==
    /\ h \in ActiveTimers(timers)
    /\ loads["loadDashboard"] < MaxInFlight
    /\ loads' = [loads EXCEPT !["loadDashboard"] = @ + 1]
    /\ uiManager' = showLoading(uiManager)
    /\ Did("autoRefreshTimer", h, Null)
    /\ UNCHANGED <<items, now, nextId, calls, dashboardManager, timers>>

\* collections on which the page is loaded
PageCollections ==
    {<<>>,
     <<Stored([quantity |-> 11, expiryDate |-> Today + 20], 1)>>,
     <<Stored([quantity |-> 0, expiryDate |-> Today + 50], 1),
       Stored([quantity |-> 3, expiryDate |-> Today - 1], 2)>>}

\* the managers have been constructed: each init() has started its load, and
\* DashboardManager.init has started the interval timer
InitPage ==
    /\ items \in PageCollections
    /\ now = Today * TicksPerDay
    /\ nextId = Len(items) + 1
    /\ lastOp = "constructor"
    /\ arg = Null
    /\ result = Null
    /\ calls = [c \in Calls |-> IdleCall]
    /\ dashboardManager = [refreshInterval |-> 1, autoRefreshEnabled |-> TRUE,
                           refreshRate |-> defaultRefreshRate]
    /\ timers = <<[rate |-> defaultRefreshRate, active |-> TRUE]>>
    /\ uiManager = [loading |-> TRUE, alertBadge |-> 0]
    /\ loads = [l \in Loaders |-> 1]

NextPage ==
    \/ \E loader \in Loaders : LoadStarts(loader)
    \/ \E loader \in Loaders : LoadSucceeds(loader)
    \/ \E loader \in Loaders : LoadFails(loader)
    \/ \E h \in 1..Len(timers) : TimerFires(h)
    \/ StartAutoRefresh
    \/ StopAutoRefresh
    \/ \E enabled \in BOOLEAN : ToggleAutoRefresh(enabled)
    \/ \E rate \in RefreshRates : SetRefreshRate(rate)

SpecPage == InitPage /\ [][NextPage]_vars


\* C28: the alert badge depends only on the collection: when the dashboard
\* load and the alerts load complete one after the other on the same
\* collection, in either order, the second writes the count the first wrote.
C28_BadgeWritersAgree ==
    [][(/\ lastOp = "loaded" /\ lastOp' = "loaded"
        /\ {arg, arg'} = {"loadDashboard", "loadAlerts"}
        /\ items' = items /\ now' = now)
            => uiManager'.alertBadge = uiManager.alertBadge]_vars

\* C29: at most one interval timer is active; exactly one, with the latest
\* refreshRate, when autoRefreshEnabled is true; none after stopAutoRefresh or
\* toggleAutoRefresh(false) and none while auto-refresh is disabled.
C29_OneTimerIffEnabled ==
    /\ Cardinality(ActiveTimers(timers)) <= 1
    /\ dashboardManager.autoRefreshEnabled =>
          /\ Cardinality(ActiveTimers(timers)) = 1
          /\ \A h \in ActiveTimers(timers) : timers[h].rate = dashboardManager.refreshRate
    /\ (lastOp = "stopAutoRefresh" \/ (lastOp = "toggleAutoRefresh" /\ arg = FALSE))
          => ActiveTimers(timers) = {}
    /\ ~dashboardManager.autoRefreshEnabled => ActiveTimers(timers) = {}

\* C29 as amended: at most one interval timer is active, and an active timer
\* is the one refreshInterval names, runs at the latest refreshRate and exists
\* only while autoRefreshEnabled is true; exactly one is active when
\* autoRefreshEnabled is true and stopAutoRefresh has not cleared
\* refreshInterval since the last start, in particular after startAutoRefresh,
\* toggleAutoRefresh(true) and setRefreshRate; none is active after
\* stopAutoRefresh or toggleAutoRefresh(false) and none while disabled.
C29_OneTimerUnlessStopped ==
    /\ Cardinality(ActiveTimers(timers)) <= 1
    /\ \A h \in ActiveTimers(timers) :
          /\ dashboardManager.autoRefreshEnabled
          /\ h = dashboardManager.refreshInterval
          /\ timers[h].rate = dashboardManager.refreshRate
    /\ (dashboardManager.autoRefreshEnabled /\ dashboardManager.refreshInterval # noInterval)
          => ActiveTimers(timers) = {dashboardManager.refreshInterval}
    /\ (/\ dashboardManager.autoRefreshEnabled
        /\ \/ lastOp \in {"startAutoRefresh", "setRefreshRate"}
           \/ (lastOp = "toggleAutoRefresh" /\ arg = TRUE))
          => dashboardManager.refreshInterval # noInterval
    /\ (lastOp = "stopAutoRefresh" \/ (lastOp = "toggleAutoRefresh" /\ arg = FALSE))
          => ActiveTimers(timers) = {}
    /\ ~dashboardManager.autoRefreshEnabled => ActiveTimers(timers) = {}

\* C29 witness: setRefreshRate has replaced the running timer by one with the
\* new rate: the earlier timers are cleared and only the newest is active.
C29_Witness ==
    /\ lastOp = "setRefreshRate"
    /\ arg = 2 * defaultRefreshRate
    /\ dashboardManager.autoRefreshEnabled
    /\ Len(timers) > 2
    /\ ActiveTimers(timers) = {Len(timers)}
    /\ timers[Len(timers)].rate = 2 * defaultRefreshRate
    /\ timers[Len(timers) - 1].rate = defaultRefreshRate

\* C30: the spinner is active while a load is in flight and hidden once every
\* load has finished.
C30_SpinnerWhileLoading ==
    /\ (\E loader \in Loaders : loads[loader] > 0) => uiManager.loading
    /\ (\A loader \in Loaders : loads[loader] = 0) => ~uiManager.loading

====
